---- MODULE Spec2Model ----
(***************************************************************************)
(* A model of the detection service (models/infer_server.py) and of the    *)
(* local webcam runner (models/run_yolo_local.py).                         *)
(*                                                                         *)
(* Confidences and thresholds are integers in hundredths (0.25 is 25).     *)
(* Strings are sequences of one-character strings, so that lower() and     *)
(* strip() are computed character by character.  Boxes are <<x1,y1,x2,y2>> *)
(* with integer pixel coordinates; an IoU value is the exact fraction      *)
(* <<numerator, denominator>>.                                             *)
(***************************************************************************)
EXTENDS Integers, Sequences, FiniteSets, TLC

VARIABLES
    \* ---- infer_server.py: configuration and one request through detect ----
    COCO_CONF_THRESH,    \* line 42, read from the environment at startup
    CUSTOM_CONF_THRESH,  \* line 43
    pc,                  \* position of the request in detect
    req,                 \* the DetectReq being handled
    results_coco,        \* <<>> is None, <<r>> is the result r of coco_model.predict
    results_custom,      \* likewise for custom_model.predict
    predict_calls,       \* the predict calls made for this request, in order
    filtered_dets,       \* line 111
    resp,                \* the HTTP response
    \* ---- the sort-and-suppress step of detect, on its own ----
    s_pc, s_dets, s_kept, s_again,
    \* ---- the iou helper of detect, on its own ----
    i_pc, boxA, boxB, iou_ab, iou_ba, iou_aa,
    \* ---- run_yolo_local.py: run_webcam and _on_signal ----
    w_pc, STOP_REQUESTED, frame_count, max_frames, max_seconds_set, no_display,
    released, exit_reason, frames_done, reads_after_stop,
    \* ---- run_yolo_local.py: one call of infer_on_pil_dual ----
    l_pc, l_args, l_results, l_coco, l_custom, l_out

serverVars == <<COCO_CONF_THRESH, CUSTOM_CONF_THRESH, pc, req, results_coco,
                results_custom, predict_calls, filtered_dets, resp>>
suppVars == <<s_pc, s_dets, s_kept, s_again>>
iouVars == <<i_pc, boxA, boxB, iou_ab, iou_ba, iou_aa>>
camVars == <<w_pc, STOP_REQUESTED, frame_count, max_frames, max_seconds_set,
             no_display, released, exit_reason, frames_done, reads_after_stop>>
localVars == <<l_pc, l_args, l_results, l_coco, l_custom, l_out>>
vars == <<serverVars, suppVars, iouVars, camVars, localVars>>

----------------------------------------------------------------------------
(* Bounds *)

\* the longest list of boxes a detector returns for one request
MaxRaw == 2
\* the longest list given to the sort-and-suppress step on its own
MaxDets == 3
\* the largest pixel coordinate of the boxes given to iou on its own
MaxCoord == 3
\* the most frames the camera delivers in one run
MaxFrameCount == 3
\* the longest list of boxes a model returns to infer_on_pil
MaxLocal == 1

----------------------------------------------------------------------------
(* Strings: str.lower() and str.strip() *)

Uppers == <<"A","B","C","D","E","F","G","H","I","J","K","L","M",
            "N","O","P","Q","R","S","T","U","V","W","X","Y","Z">>
Lowers == <<"a","b","c","d","e","f","g","h","i","j","k","l","m",
            "n","o","p","q","r","s","t","u","v","w","x","y","z">>
Whitespace == {" ", "\t", "\n"}

\* the lower-case letter of each upper-case letter
LowerMap ==
    [c \in {Uppers[i] : i \in 1..Len(Uppers)} |->
        Lowers[CHOOSE i \in 1..Len(Uppers) : Uppers[i] = c]]

LowerChar(c) == IF c \in DOMAIN LowerMap THEN LowerMap[c] ELSE c

\* str.lower()
Lower(s) == [i \in 1..Len(s) |-> LowerChar(s[i])]

RECURSIVE LStrip(_)
LStrip(s) ==
    IF s # <<>> /\ Head(s) \in Whitespace THEN LStrip(Tail(s)) ELSE s

RECURSIVE RStrip(_)
RStrip(s) ==
    IF s # <<>> /\ s[Len(s)] \in Whitespace
    THEN RStrip(SubSeq(s, 1, Len(s) - 1))
    ELSE s

\* str.strip()
Strip(s) == RStrip(LStrip(s))

\* str(cls_id) for the class ids of the model
Digits == <<"0","1","2","3","4","5","6","7","8","9">>
Str(n) == <<Digits[n + 1]>>

ELEVATOR == <<"e","l","e","v","a","t","o","r">>

----------------------------------------------------------------------------
(* Numbers *)

Max(a, b) == IF b > a THEN b ELSE a
Min(a, b) == IF b < a THEN b ELSE a

----------------------------------------------------------------------------
(* The iou helper of detect (infer_server.py, lines 115-128) *)

IOU_THRESH_NUM == 1
IOU_THRESH_DEN == 2

\* a variant of iou that divides by the first box's area instead of the union
iou_OverFirstArea(bA, bB) ==
    LET xA == Max(bA[1], bB[1])
        yA == Max(bA[2], bB[2])
        xB == Min(bA[3], bB[3])
        yB == Min(bA[4], bB[4])
        interArea == Max(0, xB - xA) * Max(0, yB - yA)
        boxAArea == Max(0, bA[3] - bA[1]) * Max(0, bA[4] - bA[2])
    IN  IF boxAArea <= 0 THEN <<0, 1>> ELSE <<interArea, boxAArea>>

\* iou(boxA, boxB): the fraction interArea / denom, and 0 (as 0/1) when
\* denom <= 0
iou(bA, bB) ==
    LET xA == Max(bA[1], bB[1])
        yA == Max(bA[2], bB[2])
        xB == Min(bA[3], bB[3])
        yB == Min(bA[4], bB[4])
        interW == Max(0, xB - xA)
        interH == Max(0, yB - yA)
        interArea == interW * interH
        boxAArea == Max(0, bA[3] - bA[1]) * Max(0, bA[4] - bA[2])
        boxBArea == Max(0, bB[3] - bB[1]) * Max(0, bB[4] - bB[2])
        denom == boxAArea + boxBArea - interArea
    IN  IF denom <= 0 THEN <<0, 1>> ELSE <<interArea, denom>>

\* v > iou_thresh, for a fraction v with a positive denominator
OverIouThresh(v) == v[1] * IOU_THRESH_DEN > IOU_THRESH_NUM * v[2]

----------------------------------------------------------------------------
(* The sort-and-suppress step of detect (infer_server.py, lines 130-144) *)

\* d placed behind every record of s whose conf is at least its own
RECURSIVE InsertByConf(_, _)
InsertByConf(d, s) ==
    IF s = <<>> THEN <<d>>
    ELSE IF Head(s).conf >= d.conf
         THEN <<Head(s)>> \o InsertByConf(d, Tail(s))
         ELSE <<d>> \o s

RECURSIVE SortInto(_, _)
SortInto(s, acc) ==
    IF s = <<>> THEN acc ELSE SortInto(Tail(s), InsertByConf(Head(s), acc))

Reverse(s) == [i \in 1..Len(s) |-> s[Len(s) + 1 - i]]

\* a variant of the sort: ascending, then reversed, which turns ties around
SortByConf_ReversedTies(s) ==
    LET neg == [i \in 1..Len(s) |-> [s[i] EXCEPT !.conf = 0 - s[i].conf]]
        asc == SortInto(neg, <<>>)
    IN  Reverse([i \in 1..Len(asc) |-> [asc[i] EXCEPT !.conf = 0 - asc[i].conf]])

\* a variant of the sort without reverse=True: ascending
SortByConf_Ascending(s) == Reverse(SortInto(s, <<>>))

\* dets.sort(key=conf, reverse=True): descending, stable
SortByConf(s) == SortInto(s, <<>>)

\* a variant of the duplicate test that forgets the labels
IsDup_AnyLabel(d, kept) ==
    \E i \in 1..Len(kept) : OverIouThresh(iou(kept[i].box, d.box))

\* a variant of the duplicate test that compares labels as they are
IsDup_CaseSensitive(d, kept) ==
    \E i \in 1..Len(kept) :
        /\ kept[i].label = d.label
        /\ OverIouThresh(iou(kept[i].box, d.box))

\* the inner loop: some kept record has the same lower-cased label and
\* IoU > iou_thresh with d
IsDup(d, kept) ==
    \E i \in 1..Len(kept) :
        /\ Lower(kept[i].label) = Lower(d.label)
        /\ OverIouThresh(iou(kept[i].box, d.box))

\* the outer loop over the sorted dets
RECURSIVE SuppressFrom(_, _)
SuppressFrom(dets, kept) ==
    IF dets = <<>> THEN kept
    ELSE SuppressFrom(Tail(dets),
                      IF IsDup(Head(dets), kept) THEN kept
                      ELSE Append(kept, Head(dets)))

SortAndSuppress(dets) == SuppressFrom(SortByConf(dets), <<>>)

----------------------------------------------------------------------------
(* detect (infer_server.py, lines 51-169): helpers *)

\* line 62: req.target.lower().strip()
TargetLower(target) == Strip(Lower(target))

\* a variant of line 68 that runs the COCO model for every target
UseCoco_Always(target_lower) == TRUE

\* line 68: the COCO model runs for this target
UseCoco(target_lower) == target_lower # ELEVATOR

\* line 76: the custom model runs for this target
UseCustom(target_lower) == target_lower = ELEVATOR

\* names.get(cls_id, str(cls_id)), line 96
NameOf(names, cls_id) ==
    IF cls_id \in DOMAIN names THEN names[cls_id] ELSE Str(cls_id)

\* extract(results), lines 83-100: None and an empty boxes give []
extract(results) ==
    IF results = <<>> THEN <<>>
    ELSE LET r == results[1]
         IN  [i \in 1..Len(r.boxes) |->
                 [label |-> NameOf(r.names, r.boxes[i].cls),
                  conf  |-> r.boxes[i].conf,
                  box   |-> r.boxes[i].xyxy]]

\* lines 103-107: the records of the model chosen by the target
Detections(target_lower, rcoco, rcustom) ==
    IF target_lower = ELEVATOR THEN extract(rcustom) ELSE extract(rcoco)

\* a variant of line 110 that lets the caller lower the floor
Threshold_CallerOnly(req_conf, target_lower, coco_thresh, custom_thresh) ==
    req_conf

\* line 110
Threshold(req_conf, target_lower, coco_thresh, custom_thresh) ==
    Max(req_conf, IF target_lower = ELEVATOR THEN custom_thresh ELSE coco_thresh)

\* a variant of line 111 with the comparison turned around
Filter_Below(dets, threshold) ==
    SelectSeq(dets, LAMBDA d : d.conf <= threshold)

\* line 111
Filter(dets, threshold) ==
    SelectSeq(dets, LAMBDA d : d.conf >= threshold)

\* a variant of line 145 that compares with the stripped target of line 62
Found_Stripped(detections, target) ==
    \E i \in 1..Len(detections) :
        Lower(detections[i].label) = Strip(Lower(target))

\* line 145
Found(detections, target) ==
    \E i \in 1..Len(detections) :
        Lower(detections[i].label) = Lower(target)

----------------------------------------------------------------------------
(* detect: the inputs *)

PERSON == <<"p","e","r","s","o","n">>

\* the target strings of the requests
Targets ==
    { ELEVATOR,
      <<"E","l","e","v","a","t","o","r">>,
      <<" ">> \o ELEVATOR,
      PERSON,
      <<"P","E","R","S","O","N">>,
      <<>> }

\* the thresholds of the requests
Thresholds == {10, 50}

\* the (COCO_CONF_THRESH, CUSTOM_CONF_THRESH) pairs of the environment; the
\* first is the default of lines 42-43
ConfDefaults == { <<25, 25>>, <<25, 40>> }

\* results.names of the two loaded models
COCO_NAMES == (0 :> PERSON) @@ (1 :> <<"b","o","t","t","l","e">>)
CUSTOM_NAMES == (0 :> ELEVATOR) @@ (1 :> <<"E","l","e","v","a","t","o","r">>)

BOX_A == <<0, 0, 4, 4>>
BOX_B == <<1, 0, 5, 4>>
BOX_C == <<2, 0, 6, 4>>
Confs == {20, 30, 60}

\* what a model's predict returns in results.boxes
RawBoxes == [cls : 0..2, conf : Confs, xyxy : {BOX_A, BOX_B, BOX_C}]

SeqsUpTo(S, n) == UNION { [1..k -> S] : k \in 0..n }

Requests == [image_ok : BOOLEAN, target : Targets, threshold : Thresholds]

NoReq == [image_ok |-> FALSE, target |-> <<>>, threshold |-> 0]
NoResp == [status |-> 0, detail |-> "", body |-> <<>>]

----------------------------------------------------------------------------
(* detect: the steps of one request *)

ServerInit ==
    /\ \E c \in ConfDefaults :
          /\ COCO_CONF_THRESH = c[1]
          /\ CUSTOM_CONF_THRESH = c[2]
    /\ pc = "idle"
    /\ req = NoReq
    /\ results_coco = <<>>
    /\ results_custom = <<>>
    /\ predict_calls = <<>>
    /\ filtered_dets = <<>>
    /\ resp = NoResp

ServerIdle ==
    /\ COCO_CONF_THRESH = 25
    /\ CUSTOM_CONF_THRESH = 25
    /\ pc = "off"
    /\ req = NoReq
    /\ results_coco = <<>>
    /\ results_custom = <<>>
    /\ predict_calls = <<>>
    /\ filtered_dets = <<>>
    /\ resp = NoResp

\* POST /detect arrives
Receive ==
    /\ pc = "idle"
    /\ \E r \in Requests : req' = r
    /\ pc' = "decode"
    /\ UNCHANGED <<COCO_CONF_THRESH, CUSTOM_CONF_THRESH, results_coco,
                   results_custom, predict_calls, filtered_dets, resp>>
    /\ UNCHANGED <<suppVars, iouVars, camVars, localVars>>

\* lines 53-57: b64decode and Image.open succeed
DecodeOk(r) == r.image_ok

\* lines 53-57
Decode ==
    /\ pc = "decode"
    /\ \/ /\ DecodeOk(req)
          /\ pc' = "coco"
          /\ resp' = resp
       \/ /\ ~DecodeOk(req)
          /\ resp' = [status |-> 400, detail |-> "invalid image_b64", body |-> <<>>]
          /\ pc' = "done"
    /\ UNCHANGED <<COCO_CONF_THRESH, CUSTOM_CONF_THRESH, req, results_coco,
                   results_custom, predict_calls, filtered_dets>>
    /\ UNCHANGED <<suppVars, iouVars, camVars, localVars>>

\* a variant of lines 72-73 that swallows the exception and goes on
CocoFailure_Swallowed == [pc |-> "custom", resp |-> NoResp]

\* lines 72-73: coco_model.predict raised; detect ends with an HTTPException
CocoFailure ==
    [pc |-> "done",
     resp |-> [status |-> 500, detail |-> "coco infer failed", body |-> <<>>]]

\* lines 80-81: custom_model.predict raised; detect ends with an HTTPException
CustomFailure ==
    [pc |-> "done",
     resp |-> [status |-> 500, detail |-> "custom model infer failed", body |-> <<>>]]

\* lines 68-73
CocoStep ==
    /\ pc = "coco"
    /\ LET target_lower == TargetLower(req.target)
           coco_conf == Max(req.threshold, COCO_CONF_THRESH)
       IN  \/ /\ ~UseCoco(target_lower)
              /\ pc' = "custom"
              /\ UNCHANGED <<results_coco, predict_calls, resp>>
           \/ /\ UseCoco(target_lower)
              /\ predict_calls' =
                    Append(predict_calls, [model |-> "coco", conf |-> coco_conf])
              /\ \/ /\ \E b \in SeqsUpTo(RawBoxes, MaxRaw) :
                          results_coco' = <<[names |-> COCO_NAMES, boxes |-> b]>>
                    /\ pc' = "custom"
                    /\ resp' = resp
                 \/ /\ resp' = CocoFailure.resp
                    /\ pc' = CocoFailure.pc
                    /\ results_coco' = results_coco
    /\ UNCHANGED <<COCO_CONF_THRESH, CUSTOM_CONF_THRESH, req, results_custom,
                   filtered_dets>>
    /\ UNCHANGED <<suppVars, iouVars, camVars, localVars>>

\* lines 76-81
CustomStep ==
    /\ pc = "custom"
    /\ LET target_lower == TargetLower(req.target)
           custom_conf == Max(req.threshold, CUSTOM_CONF_THRESH)
       IN  \/ /\ ~UseCustom(target_lower)
              /\ pc' = "post"
              /\ UNCHANGED <<results_custom, predict_calls, resp>>
           \/ /\ UseCustom(target_lower)
              /\ predict_calls' =
                    Append(predict_calls, [model |-> "custom", conf |-> custom_conf])
              /\ \/ /\ \E b \in SeqsUpTo(RawBoxes, MaxRaw) :
                          results_custom' = <<[names |-> CUSTOM_NAMES, boxes |-> b]>>
                    /\ pc' = "post"
                    /\ resp' = resp
                 \/ /\ resp' = CustomFailure.resp
                    /\ pc' = CustomFailure.pc
                    /\ results_custom' = results_custom
    /\ UNCHANGED <<COCO_CONF_THRESH, CUSTOM_CONF_THRESH, req, results_coco,
                   filtered_dets>>
    /\ UNCHANGED <<suppVars, iouVars, camVars, localVars>>

\* lines 102-169: extract, threshold, sort, suppress, found, respond
PostProcess ==
    /\ pc = "post"
    /\ LET target_lower == TargetLower(req.target)
           detections == Detections(target_lower, results_coco, results_custom)
           threshold == Threshold(req.threshold, target_lower,
                                  COCO_CONF_THRESH, CUSTOM_CONF_THRESH)
           dets == Filter(detections, threshold)
           kept == SortAndSuppress(dets)
           found == Found(kept, req.target)
       IN  /\ filtered_dets' = dets
           /\ resp' = [status |-> 200, detail |-> "",
                       body |-> <<[found |-> found, detections |-> kept]>>]
    /\ pc' = "done"
    /\ UNCHANGED <<COCO_CONF_THRESH, CUSTOM_CONF_THRESH, req, results_coco,
                   results_custom, predict_calls>>
    /\ UNCHANGED <<suppVars, iouVars, camVars, localVars>>

ServerNext == Receive \/ Decode \/ CocoStep \/ CustomStep \/ PostProcess

----------------------------------------------------------------------------
(* The sort-and-suppress step on its own: lines 130-144 applied to a list  *)
(* of thresholded records, and then once more to its own output            *)

Labels == { ELEVATOR, <<"E","l","e","v","a","t","o","r">>, PERSON }

\* the records of a thresholded list
DetRecords == [label : Labels, conf : {30, 60}, box : {BOX_A, BOX_B, BOX_C}]

SuppInit ==
    /\ s_pc = "start"
    /\ s_dets \in SeqsUpTo(DetRecords, MaxDets)
    /\ s_kept = <<>>
    /\ s_again = <<>>

SuppIdle ==
    /\ s_pc = "off"
    /\ s_dets = <<>>
    /\ s_kept = <<>>
    /\ s_again = <<>>

\* lines 130-144 on dets
RunSuppress ==
    /\ s_pc = "start"
    /\ s_kept' = SortAndSuppress(s_dets)
    /\ s_pc' = "kept"
    /\ UNCHANGED <<s_dets, s_again>>
    /\ UNCHANGED <<serverVars, iouVars, camVars, localVars>>

\* lines 130-144 on the list they produced
RunAgain ==
    /\ s_pc = "kept"
    /\ s_again' = SortAndSuppress(s_kept)
    /\ s_pc' = "again"
    /\ UNCHANGED <<s_dets, s_kept>>
    /\ UNCHANGED <<serverVars, iouVars, camVars, localVars>>

SuppNext == RunSuppress \/ RunAgain

----------------------------------------------------------------------------
(* The iou helper on its own: lines 115-128 applied to two boxes *)

\* the boxes of the Detection Record: x1 <= x2 and y1 <= y2
GridBoxes ==
    { b \in (0..MaxCoord) \X (0..MaxCoord) \X (0..MaxCoord) \X (0..MaxCoord) :
        b[1] <= b[3] /\ b[2] <= b[4] }

IouInit ==
    /\ i_pc = "start"
    /\ boxA \in GridBoxes
    /\ boxB \in GridBoxes
    /\ iou_ab = <<0, 1>>
    /\ iou_ba = <<0, 1>>
    /\ iou_aa = <<0, 1>>

IouIdle ==
    /\ i_pc = "off"
    /\ boxA = <<0, 0, 0, 0>>
    /\ boxB = <<0, 0, 0, 0>>
    /\ iou_ab = <<0, 1>>
    /\ iou_ba = <<0, 1>>
    /\ iou_aa = <<0, 1>>

ComputeIou ==
    /\ i_pc = "start"
    /\ iou_ab' = iou(boxA, boxB)
    /\ iou_ba' = iou(boxB, boxA)
    /\ iou_aa' = iou(boxA, boxA)
    /\ i_pc' = "done"
    /\ UNCHANGED <<boxA, boxB>>
    /\ UNCHANGED <<serverVars, suppVars, camVars, localVars>>

IouNext == ComputeIou

----------------------------------------------------------------------------
(* run_webcam and _on_signal (run_yolo_local.py, lines 105-199)            *)
(*                                                                         *)
(* w_pc is the place of the main thread in the frame loop.  The signal     *)
(* handler runs in the main thread between two bytecodes, so it may run    *)
(* between any two steps.  frame_late says that the frame in hand was      *)
(* read with the stop flag already set; late_frames counts the frames so   *)
(* read and then given to infer_on_pil_dual; frames_done counts the frames *)
(* whose iteration ran to its end.                                         *)

CamInit ==
    /\ w_pc = "top"
    /\ STOP_REQUESTED = FALSE
    /\ frame_count = 0
    /\ max_frames \in 0..MaxFrameCount
    /\ max_seconds_set \in BOOLEAN
    /\ no_display \in BOOLEAN
    /\ released = FALSE
    /\ exit_reason = "none"
    /\ frames_done = 0
    /\ reads_after_stop = [frame_late |-> FALSE, late_frames |-> 0]

CamIdle ==
    /\ w_pc = "off"
    /\ STOP_REQUESTED = FALSE
    /\ frame_count = 0
    /\ max_frames = 0
    /\ max_seconds_set = FALSE
    /\ no_display = FALSE
    /\ released = FALSE
    /\ exit_reason = "none"
    /\ frames_done = 0
    /\ reads_after_stop = [frame_late |-> FALSE, late_frames |-> 0]

\* _on_signal, lines 108-110
OnSignal ==
    /\ w_pc \in {"top", "limits", "read", "infer", "display", "log", "finally"}
    /\ STOP_REQUESTED' = TRUE
    /\ UNCHANGED <<w_pc, frame_count, max_frames, max_seconds_set, no_display,
                   released, exit_reason, frames_done, reads_after_stop>>
    /\ UNCHANGED <<serverVars, suppVars, iouVars, localVars>>

\* a variant of line 150 that never sees the flag
StopSeen_Never(flag) == FALSE

\* line 150: if _STOP_REQUESTED
StopSeen(flag) == flag

\* lines 150-152
CheckStop ==
    /\ w_pc = "top"
    /\ \/ /\ StopSeen(STOP_REQUESTED)
          /\ exit_reason' = "stop"
          /\ w_pc' = "finally"
       \/ /\ ~StopSeen(STOP_REQUESTED)
          /\ exit_reason' = exit_reason
          /\ w_pc' = "limits"
    /\ UNCHANGED <<STOP_REQUESTED, frame_count, max_frames, max_seconds_set,
                   no_display, released, frames_done, reads_after_stop>>
    /\ UNCHANGED <<serverVars, suppVars, iouVars, localVars>>

\* a variant of line 158 that stops one frame late
FrameBudgetOver_OffByOne(mf, fc) == mf > 0 /\ fc > mf

\* line 158: the frame budget is used up
FrameBudgetOver(mf, fc) == mf > 0 /\ fc >= mf

\* lines 155-160; whether max_seconds have passed is the clock's choice
CheckLimits ==
    /\ w_pc = "limits"
    /\ \/ /\ max_seconds_set
          /\ exit_reason' = "max_seconds"
          /\ w_pc' = "finally"
       \/ /\ FrameBudgetOver(max_frames, frame_count)
          /\ exit_reason' = "max_frames"
          /\ w_pc' = "finally"
       \/ /\ ~FrameBudgetOver(max_frames, frame_count)
          /\ exit_reason' = exit_reason
          /\ w_pc' = "read"
    /\ UNCHANGED <<STOP_REQUESTED, frame_count, max_frames, max_seconds_set,
                   no_display, released, frames_done, reads_after_stop>>
    /\ UNCHANGED <<serverVars, suppVars, iouVars, localVars>>

\* lines 162-165: cap.read(), and frame_count += 1 for a frame
ReadFrame ==
    /\ w_pc = "read"
    /\ \/ /\ frame_count < MaxFrameCount
          /\ frame_count' = frame_count + 1
          /\ reads_after_stop' =
                [reads_after_stop EXCEPT !.frame_late = STOP_REQUESTED]
          /\ exit_reason' = exit_reason
          /\ w_pc' = "infer"
       \/ /\ exit_reason' = "read_failed"
          /\ w_pc' = "finally"
          /\ UNCHANGED <<frame_count, reads_after_stop>>
    /\ UNCHANGED <<STOP_REQUESTED, max_frames, max_seconds_set, no_display,
                   released, frames_done>>
    /\ UNCHANGED <<serverVars, suppVars, iouVars, localVars>>

\* lines 166-167: infer_on_pil_dual returns or raises
Infer ==
    /\ w_pc = "infer"
    /\ \/ /\ w_pc' = IF no_display THEN "log" ELSE "display"
          /\ reads_after_stop' =
                [reads_after_stop EXCEPT
                    !.late_frames = @ + (IF reads_after_stop.frame_late THEN 1 ELSE 0)]
          /\ exit_reason' = exit_reason
       \/ /\ exit_reason' = "exception"
          /\ w_pc' = "finally"
          /\ reads_after_stop' = reads_after_stop
    /\ UNCHANGED <<STOP_REQUESTED, frame_count, max_frames, max_seconds_set,
                   no_display, released, frames_done>>
    /\ UNCHANGED <<serverVars, suppVars, iouVars, localVars>>

\* lines 168-185: draw, imshow, the window check and the key
Display ==
    /\ w_pc = "display"
    /\ \/ /\ exit_reason' = exit_reason
          /\ w_pc' = "log"
       \/ /\ exit_reason' \in {"window", "key", "exception"}
          /\ w_pc' = "finally"
    /\ UNCHANGED <<STOP_REQUESTED, frame_count, max_frames, max_seconds_set,
                   no_display, released, frames_done, reads_after_stop>>
    /\ UNCHANGED <<serverVars, suppVars, iouVars, localVars>>

\* lines 187-189, the end of the iteration
Log ==
    /\ w_pc = "log"
    /\ frames_done' = frames_done + 1
    /\ w_pc' = "top"
    /\ UNCHANGED <<STOP_REQUESTED, frame_count, max_frames, max_seconds_set,
                   no_display, released, exit_reason, reads_after_stop>>
    /\ UNCHANGED <<serverVars, suppVars, iouVars, localVars>>

\* lines 190-199: cap.release(), destroyAllWindows(), then return or re-raise
Finally ==
    /\ w_pc = "finally"
    /\ released' = TRUE
    /\ w_pc' = IF exit_reason = "exception" THEN "raised" ELSE "returned"
    /\ UNCHANGED <<STOP_REQUESTED, frame_count, max_frames, max_seconds_set,
                   no_display, exit_reason, frames_done, reads_after_stop>>
    /\ UNCHANGED <<serverVars, suppVars, iouVars, localVars>>

CamNext ==
    OnSignal \/ CheckStop \/ CheckLimits \/ ReadFrame \/ Infer \/ Display
        \/ Log \/ Finally

----------------------------------------------------------------------------
(* infer_on_pil and infer_on_pil_dual (run_yolo_local.py, lines 32-57) *)

NoOut == [found |-> FALSE, detections |-> <<>>]

LocalInit ==
    /\ l_pc = "coco"
    /\ l_args \in [target : Targets, threshold : Thresholds]
    /\ l_results = [coco |-> <<>>, custom |-> <<>>]
    /\ l_coco = NoOut
    /\ l_custom = NoOut
    /\ l_out = <<>>

LocalIdle ==
    /\ l_pc = "off"
    /\ l_args = [target |-> <<>>, threshold |-> 0]
    /\ l_results = [coco |-> <<>>, custom |-> <<>>]
    /\ l_coco = NoOut
    /\ l_custom = NoOut
    /\ l_out = <<>>

\* infer_on_pil, lines 35-47, on the results of model.predict: every box
\* becomes a record, and found says that one of the labels is the target
infer_on_pil(results, target) ==
    LET detections ==
            [i \in 1..Len(results.boxes) |->
                [label |-> NameOf(results.names, results.boxes[i].cls),
                 conf  |-> results.boxes[i].conf,
                 box   |-> results.boxes[i].xyxy]]
    IN  [found |-> \E i \in 1..Len(detections) :
                      Lower(detections[i].label) = Lower(target),
         detections |-> detections]

\* line 51: infer_on_pil with the COCO model; predict returns or raises
LocalCoco ==
    /\ l_pc = "coco"
    /\ \/ \E b \in SeqsUpTo(RawBoxes, MaxLocal) :
             LET results == [names |-> COCO_NAMES, boxes |-> b]
             IN  /\ l_results' = [l_results EXCEPT !.coco = <<results>>]
                 /\ l_coco' = infer_on_pil(results, l_args.target)
                 /\ l_pc' = "custom"
       \/ /\ l_pc' = "raised"
          /\ UNCHANGED <<l_results, l_coco>>
    /\ UNCHANGED <<l_args, l_custom, l_out>>
    /\ UNCHANGED <<serverVars, suppVars, iouVars, camVars>>

\* line 53: infer_on_pil with the custom model; predict returns or raises
LocalCustom ==
    /\ l_pc = "custom"
    /\ \/ \E b \in SeqsUpTo(RawBoxes, MaxLocal) :
             LET results == [names |-> CUSTOM_NAMES, boxes |-> b]
             IN  /\ l_results' = [l_results EXCEPT !.custom = <<results>>]
                 /\ l_custom' = infer_on_pil(results, l_args.target)
                 /\ l_pc' = "merge"
       \/ /\ l_pc' = "raised"
          /\ UNCHANGED <<l_results, l_custom>>
    /\ UNCHANGED <<l_args, l_coco, l_out>>
    /\ UNCHANGED <<serverVars, suppVars, iouVars, camVars>>

\* lines 55-57: the two answers merged
LocalMerge ==
    /\ l_pc = "merge"
    /\ l_out' = <<[found |-> l_coco.found \/ l_custom.found,
                   detections |-> l_coco.detections \o l_custom.detections]>>
    /\ l_pc' = "done"
    /\ UNCHANGED <<l_args, l_results, l_coco, l_custom>>
    /\ UNCHANGED <<serverVars, suppVars, iouVars, camVars>>

LocalNext == LocalCoco \/ LocalCustom \/ LocalMerge

----------------------------------------------------------------------------
(* The specifications *)

\* one request through detect
Init == ServerInit /\ SuppIdle /\ IouIdle /\ CamIdle /\ LocalIdle
Next == ServerNext
Spec == Init /\ [][Next]_vars

\* the sort-and-suppress step on its own
InitSuppress == ServerIdle /\ SuppInit /\ IouIdle /\ CamIdle /\ LocalIdle
SpecSuppress == InitSuppress /\ [][SuppNext]_vars

\* the iou helper on its own
InitIou == ServerIdle /\ SuppIdle /\ IouInit /\ CamIdle /\ LocalIdle
SpecIou == InitIou /\ [][IouNext]_vars

\* one call of infer_on_pil_dual
InitLocal == ServerIdle /\ SuppIdle /\ IouIdle /\ CamIdle /\ LocalInit
SpecLocal == InitLocal /\ [][LocalNext]_vars

\* one run of run_webcam
InitWebcam == ServerIdle /\ SuppIdle /\ IouIdle /\ CamInit /\ LocalIdle
SpecWebcam == InitWebcam /\ [][CamNext]_vars

----------------------------------------------------------------------------
(* Properties of detect *)

Answered == pc = "done" /\ resp.status = 200
Body == resp.body[1]
Called(m) == \E i \in 1..Len(predict_calls) : predict_calls[i].model = m
EqualsIgnoreCase(a, b) == Lower(a) = Lower(b)
DefaultFloor(m) == IF m = "custom" THEN CUSTOM_CONF_THRESH ELSE COCO_CONF_THRESH
Larger(a, b) == IF a >= b THEN a ELSE b
Count(s, d) == Cardinality({i \in 1..Len(s) : s[i] = d})
Range(s) == {s[i] : i \in 1..Len(s)}

\* C1: in every answer of detect, found is true if and only if some record
\* of the returned detections has a label equal to the request's target,
\* compared case-insensitively.
C1_FoundIffTargetLabelReturned ==
    Answered =>
        (Body.found <=>
            \E i \in 1..Len(Body.detections) :
                EqualsIgnoreCase(Body.detections[i].label, req.target))

\* an answer with found true where no returned label is the target letter
\* for letter: the comparison had to ignore case
C1_Witness ==
    /\ Answered
    /\ Body.found
    /\ \A i \in 1..Len(Body.detections) : Body.detections[i].label # req.target

\* C2 as stated: for a request that reaches the routing, the custom model is
\* invoked if and only if the target equals "elevator" case-insensitively,
\* and the COCO model if and only if it does not.
C2_Original ==
    (pc = "done" /\ req.image_ok) =>
        /\ Called("custom") <=> EqualsIgnoreCase(req.target, ELEVATOR)
        /\ Called("coco") <=> ~EqualsIgnoreCase(req.target, ELEVATOR)

\* C2, amended: for a request that reaches the routing, the custom model is
\* invoked if and only if the target, lower-cased and stripped of leading
\* and trailing whitespace, is "elevator", and the COCO model if and only if
\* it is not; exactly one predict call is made, and every returned
\* detection is a record of the result of the model that was called.
C2_RoutingByStrippedTarget ==
    (pc = "done" /\ req.image_ok) =>
        LET elevator == Strip(Lower(req.target)) = ELEVATOR
            ran == IF elevator THEN results_custom ELSE results_coco
            other == IF elevator THEN results_coco ELSE results_custom
        IN  /\ Called("custom") <=> elevator
            /\ Called("coco") <=> ~elevator
            /\ Len(predict_calls) = 1
            /\ other = <<>>
            /\ Answered =>
                  /\ ran # <<>>
                  /\ Range(Body.detections) \subseteq Range(extract(ran))

\* a padded " elevator" request answered from the custom model's records
C2_Witness ==
    /\ Answered
    /\ req.target # Strip(req.target)
    /\ Called("custom")
    /\ Body.detections # <<>>

\* C3: the confidence floor given to the model that runs is the larger of
\* that model's default floor and the request's threshold, and every
\* returned detection has conf at least that floor.
C3_EffectiveFloor ==
    (pc = "done" /\ predict_calls # <<>>) =>
        LET floor == Larger(DefaultFloor(predict_calls[1].model), req.threshold)
        IN  /\ predict_calls[1].conf = floor
            /\ Answered =>
                  \A i \in 1..Len(Body.detections) :
                      Body.detections[i].conf >= floor

\* a request with a threshold below the model's default: a record between
\* the two is dropped, another is returned
C3_Witness ==
    /\ Answered
    /\ req.threshold < DefaultFloor(predict_calls[1].model)
    /\ Body.detections # <<>>
    /\ \E d \in Range(Detections(TargetLower(req.target), results_coco, results_custom)) :
          /\ d.conf >= req.threshold
          /\ d.conf < DefaultFloor(predict_calls[1].model)

\* C5 as stated: a request whose image cannot be decoded, or whose target is
\* empty, gets a 400 response and no predict call is made for it.
C5_InputErrorsRejected ==
    (pc \notin {"idle", "decode"} /\ (~req.image_ok \/ req.target = <<>>)) =>
        /\ predict_calls = <<>>
        /\ pc = "done" => resp.status = 400

\* the predict call of model m raised: it was called and left no result
Raised(m) ==
    /\ Called(m)
    /\ (IF m = "custom" THEN results_custom ELSE results_coco) = <<>>

\* C6: when the predict call of the model activated for a request raises,
\* the request ends with a 500 response whose detail names that model, and
\* with no found/detections body.
C6_PredictFailureIs500 ==
    /\ Raised("coco") =>
          /\ pc = "done"
          /\ resp = [status |-> 500, detail |-> "coco infer failed", body |-> <<>>]
    /\ Raised("custom") =>
          /\ pc = "done"
          /\ resp = [status |-> 500, detail |-> "custom model infer failed",
                     body |-> <<>>]

\* the COCO model's predict raised for a request
C6_Witness == Raised("coco") /\ pc = "done"

\* C9: for the records a model returned, the survivors of the threshold
\* filter at a higher caller threshold are among the survivors at a lower
\* one, and no more in number.
TestThresholds == {0, 10, 30, 50, 60, 100}

SurvivorsAt(t) ==
    LET target_lower == TargetLower(req.target)
    IN  Filter(Detections(target_lower, results_coco, results_custom),
               Threshold(t, target_lower, COCO_CONF_THRESH, CUSTOM_CONF_THRESH))

Among(a, b) ==
    /\ Len(a) <= Len(b)
    /\ \A d \in Range(a) : Count(a, d) <= Count(b, d)

C9_ThresholdMonotonic ==
    Answered =>
        \A t \in TestThresholds :
            /\ t >= req.threshold => Among(SurvivorsAt(t), filtered_dets)
            /\ t <= req.threshold => Among(filtered_dets, SurvivorsAt(t))

\* an answer where a higher threshold would have left strictly fewer
\* survivors, and a lower one strictly more
C9_Witness ==
    /\ Answered
    /\ filtered_dets # <<>>
    /\ \E t \in TestThresholds :
          t > req.threshold /\ Len(SurvivorsAt(t)) < Len(filtered_dets)
    /\ \E t \in TestThresholds :
          t < req.threshold /\ Len(SurvivorsAt(t)) > Len(filtered_dets)

\* the place of the first record of s equal to d
FirstIndex(s, d) ==
    CHOOSE i \in 1..Len(s) : s[i] = d /\ \A j \in 1..(i - 1) : s[j] # d

\* C11: the returned detections are in non-increasing order of conf, records
\* of equal conf stand in the order in which the model produced them, and
\* the list is what the suppression kept: no thresholded record is missing
\* from it but a duplicate of a returned one.
C11_OrderedByConfStable ==
    Answered =>
        LET ds == Body.detections
            produced == Detections(TargetLower(req.target), results_coco,
                                   results_custom)
        IN  /\ Range(ds) \subseteq Range(produced)
            /\ \A i, j \in 1..Len(ds) :
                  i < j =>
                    /\ ds[i].conf >= ds[j].conf
                    /\ ds[i].conf = ds[j].conf =>
                          FirstIndex(produced, ds[i]) < FirstIndex(produced, ds[j])
            /\ \A d \in Range(filtered_dets) :
                  d \in Range(ds) \/ IsDup(d, ds)

\* an answer with two records of equal conf
C11_Witness ==
    /\ Answered
    /\ Len(Body.detections) >= 2
    /\ Body.detections[1].conf = Body.detections[2].conf
    /\ Body.detections[1] # Body.detections[2]

----------------------------------------------------------------------------
(* Properties of the sort-and-suppress step *)

\* C4: the suppression returns a list no longer than its input, in which no
\* two distinct kept records have the same label (case-insensitive) and
\* IoU greater than 0.5 with each other.
C4_NoOverlappingSameLabelKept ==
    s_pc # "start" =>
        /\ Len(s_kept) <= Len(s_dets)
        /\ \A i, j \in 1..Len(s_kept) :
              i # j =>
                ~ /\ EqualsIgnoreCase(s_kept[i].label, s_kept[j].label)
                  /\ OverIouThresh(iou(s_kept[i].box, s_kept[j].box))

\* a run that dropped a duplicate and kept two records whose labels differ
\* in case only
C4_Witness ==
    /\ s_pc = "kept"
    /\ Len(s_kept) < Len(s_dets)
    /\ \E i, j \in 1..Len(s_kept) :
          /\ i # j
          /\ s_kept[i].label # s_kept[j].label
          /\ EqualsIgnoreCase(s_kept[i].label, s_kept[j].label)

\* C8: running the sort-and-suppress step on its own output gives the same
\* list, with the same records in the same order.
C8_SuppressIdempotent == s_pc = "again" => s_again = s_kept

\* a second run over an output that lost a duplicate and holds two records
\* of equal conf
C8_Witness ==
    /\ s_pc = "again"
    /\ Len(s_kept) < Len(s_dets)
    /\ Len(s_kept) >= 2
    /\ s_kept[1].conf = s_kept[2].conf

\* a and b have the same label (case-insensitive) and IoU > 0.5
SameLabelOverlap(a, b) ==
    /\ EqualsIgnoreCase(a.label, b.label)
    /\ OverIouThresh(iou(a.box, b.box))

\* the k-th smallest member of the set K of numbers
KthOf(K, k) == CHOOSE i \in K : Cardinality({j \in K : j <= i}) = k

\* the records of s at the places K, in the order of s
AtPlaces(s, K) == [k \in 1..Cardinality(K) |-> s[KthOf(K, k)]]

\* C13: with the thresholded records in descending order of conf, a record
\* is dropped if and only if a record kept before it has the same label
\* (case-insensitive) and IoU > 0.5 with it; so a record whose label no
\* other record has is kept whatever it overlaps, and every dropped record
\* has a kept record of the same label, of IoU > 0.5 with it and of conf at
\* least its own.
C13_DroppedIffSameLabelKeptOverlap ==
    s_pc # "start" =>
        LET sorted == SortByConf(s_dets)
            n == Len(sorted)
        IN  \E K \in SUBSET (1..n) :
              /\ s_kept = AtPlaces(sorted, K)
              /\ \A i \in 1..n :
                    i \notin K <=>
                        \E j \in K : j < i /\ SameLabelOverlap(sorted[j], sorted[i])
              /\ \A i \in (1..n) \ K :
                    \E j \in K :
                        /\ SameLabelOverlap(sorted[j], sorted[i])
                        /\ sorted[j].conf >= sorted[i].conf
              /\ \A i \in 1..n :
                    (\A j \in (1..n) \ {i} :
                        ~EqualsIgnoreCase(sorted[i].label, sorted[j].label))
                    => i \in K

\* a run over three records of one label: the second is dropped for the
\* first, and the third is kept although it overlaps the dropped second,
\* because it overlaps no kept record
C13_Witness ==
    /\ s_pc = "kept"
    /\ Len(s_dets) = 3
    /\ Len(s_kept) = 2
    /\ EqualsIgnoreCase(s_kept[1].label, s_kept[2].label)
    /\ \E i \in 1..3 :
          /\ s_dets[i] \notin Range(s_kept)
          /\ SameLabelOverlap(s_dets[i], s_kept[1])
          /\ SameLabelOverlap(s_dets[i], s_kept[2])

----------------------------------------------------------------------------
(* Properties of iou *)

Area(b) == (b[3] - b[1]) * (b[4] - b[2])
IsZero(v) == v[1] = 0 /\ v[2] > 0
IsOne(v) == v[1] = v[2] /\ v[2] > 0
\* the two boxes share no interior point
Apart(a, b) == a[3] <= b[1] \/ b[3] <= a[1] \/ a[4] <= b[2] \/ b[4] <= a[2]

\* C10 as stated: iou(A,A) = 1 for every box A with x1 <= x2 and y1 <= y2.
C10_Original == i_pc = "done" => IsOne(iou_aa)

\* C10, amended: for boxes with x1 <= x2 and y1 <= y2, iou(A,B) = iou(B,A);
\* iou(A,A) = 1 when A has a positive area, and 0 when it has none;
\* iou(A,B) = 0 when A and B do not overlap; and iou is 0 when the union
\* area is <= 0.
C10_IouLaws ==
    i_pc = "done" =>
        /\ iou_ab = iou_ba
        /\ iou_ab[2] > 0 /\ iou_ab[1] >= 0 /\ iou_ab[1] <= iou_ab[2]
        /\ Area(boxA) > 0 => IsOne(iou_aa)
        /\ Area(boxA) = 0 => IsZero(iou_aa)
        /\ Apart(boxA, boxB) => IsZero(iou_ab)
        /\ (Area(boxA) = 0 /\ Area(boxB) = 0) => IsZero(iou_ab)

\* two boxes of positive area that overlap in part
C10_Witness ==
    /\ i_pc = "done"
    /\ Area(boxA) > 0
    /\ Area(boxB) > 0
    /\ boxA # boxB
    /\ ~IsZero(iou_ab)
    /\ ~IsOne(iou_ab)

----------------------------------------------------------------------------
(* Properties of run_webcam *)

\* C7 as stated: no frame is read and given to infer_on_pil_dual after the
\* stop flag has been set.
C7_Original == reads_after_stop.late_frames = 0

\* C7, amended: after the stop flag has been set at most one more frame is
\* read and processed, the one of an iteration that had passed the check of
\* the flag before the flag was set; and the loop leaves on account of the
\* flag only at the top of an iteration, when every frame that was read has
\* been processed to the end of its iteration.
C7_AtMostOneLateFrame ==
    /\ reads_after_stop.late_frames <= 1
    /\ exit_reason = "stop" => frames_done = frame_count

\* the flag was set while a frame was in hand or about to be read, that
\* frame was processed, and the loop then left on account of the flag
C7_Witness ==
    /\ w_pc = "returned"
    /\ exit_reason = "stop"
    /\ reads_after_stop.late_frames = 1
    /\ frames_done >= 2

\* C14: on every way out of the frame loop the capture device has been
\* released when run_webcam returns or lets an exception through, and with
\* max_frames > 0 no more than max_frames frames are read and processed.
C14_ReleasedAndWithinBudget ==
    /\ w_pc \in {"returned", "raised"} => released
    /\ w_pc = "raised" <=> (released /\ exit_reason = "exception")
    /\ w_pc = "returned" <=>
          (released /\ exit_reason \in {"stop", "max_seconds", "max_frames",
                                        "read_failed", "window", "key"})
    /\ max_frames > 0 => frame_count <= max_frames

\* an exception raised while the last frame of the budget was processed:
\* the device is released and the exception goes on to the caller
C14_Witness ==
    /\ w_pc = "raised"
    /\ released
    /\ max_frames > 0
    /\ frame_count = max_frames
    /\ frames_done = max_frames - 1

----------------------------------------------------------------------------
(* infer_on_pil_dual against detect *)

\* what lines 102-145 of detect make of the results of the two models for
\* a target and a threshold
DetectAnswer(target, req_conf, rcoco, rcustom) ==
    LET target_lower == TargetLower(target)
        threshold == Threshold(req_conf, target_lower,
                               COCO_CONF_THRESH, CUSTOM_CONF_THRESH)
        kept == SortAndSuppress(
                    Filter(Detections(target_lower, rcoco, rcustom), threshold))
    IN  [found |-> Found(kept, target), detections |-> kept]

\* C12 as stated: the (found, detections) pair of infer_on_pil_dual is the
\* one that the pipeline of detect computes from the same results of the
\* models, for the same target and threshold.
C12_LocalSameAsDetect ==
    l_pc = "done" =>
        l_out[1] = DetectAnswer(l_args.target, l_args.threshold,
                                l_results.coco, l_results.custom)

====
